---- MODULE Spec2Model ----
(***************************************************************************)
(* Model of src/main.rs: the CSV loader (parse_csv), the five-panel        *)
(* renderer (plot_multi_series) and the entry point (main).                *)
(*                                                                         *)
(* A CSV field is a sequence of one-character strings.  An f64 is a record *)
(* [cls, num, scale]: cls = "nan", cls = "inf" (num = 1 or -1) or          *)
(* cls = "fin" with value num / 10^scale, num carrying no trailing zero    *)
(* when scale > 0, so equal numbers are equal records.                     *)
(***************************************************************************)
EXTENDS Integers, Sequences, FiniteSets, TLC

VARIABLES pc, argc, ncols, rows, data, loadResult, loadErr,
          axes, renderResult, written, stdout, stderr, exitCode

vars == <<pc, argc, ncols, rows, data, loadResult, loadErr,
          axes, renderResult, written, stdout, stderr, exitCode>>

(***************************************************************************)
(* Bounds of the model.                                                    *)
(***************************************************************************)
\* most data rows the reader delivers in one run
MaxRows == 3

\* most fields in the header (and in a row)
MaxCols == 10

\* largest args.len() tried (program name included)
MaxArgs == 4

(***************************************************************************)
(* f64 values and their comparison.                                        *)
(***************************************************************************)
NaN == [cls |-> "nan", num |-> 0, scale |-> 0]

INFINITY == [cls |-> "inf", num |-> 1, scale |-> 0]

NEG_INFINITY == [cls |-> "inf", num |-> -1, scale |-> 0]

RECURSIVE Pow10(_)
Pow10(n) == IF n = 0 THEN 1 ELSE 10 * Pow10(n - 1)

\* a finite value num / 10^scale in normal form
RECURSIVE Fin(_, _)
Fin(num, scale) ==
    IF num = 0 THEN [cls |-> "fin", num |-> 0, scale |-> 0]
    ELSE IF scale > 0 /\ num % 10 = 0 THEN Fin(num \div 10, scale - 1)
    ELSE [cls |-> "fin", num |-> num, scale |-> scale]

IsNaN(a) == a.cls = "nan"

\* a < b for two values neither of which is NaN
Less(a, b) ==
    CASE a.cls = "inf" /\ b.cls = "inf" -> a.num < b.num
      [] a.cls = "inf" -> a.num < 0
      [] b.cls = "inf" -> b.num > 0
      [] OTHER -> a.num * Pow10(b.scale) < b.num * Pow10(a.scale)

\* f64::partial_cmp: "None" when either side is NaN
partial_cmp(a, b) ==
    IF IsNaN(a) \/ IsNaN(b) THEN "None"
    ELSE IF Less(a, b) THEN "Less"
    ELSE IF Less(b, a) THEN "Greater"
    ELSE "Equal"

\* f64::min: a NaN operand is ignored
f64_min(a, b) ==
    IF IsNaN(a) THEN b
    ELSE IF IsNaN(b) THEN a
    ELSE IF Less(b, a) THEN b ELSE a

\* f64::max: a NaN operand is ignored
f64_max(a, b) ==
    IF IsNaN(a) THEN b
    ELSE IF IsNaN(b) THEN a
    ELSE IF Less(a, b) THEN b ELSE a

(***************************************************************************)
(* str::parse::<f64>: [sign] (inf | infinity | nan | number), letters in   *)
(* either case, number = digits [. digits] [e [sign] digits] with at least *)
(* one digit in the mantissa.  No trimming: a blank makes the text invalid.*)
(***************************************************************************)
Digits == {"0", "1", "2", "3", "4", "5", "6", "7", "8", "9"}

DigitVal(c) ==
    CASE c = "0" -> 0 [] c = "1" -> 1 [] c = "2" -> 2 [] c = "3" -> 3
      [] c = "4" -> 4 [] c = "5" -> 5 [] c = "6" -> 6 [] c = "7" -> 7
      [] c = "8" -> 8 [] c = "9" -> 9

Lower(c) ==
    CASE c = "N" -> "n" [] c = "A" -> "a" [] c = "I" -> "i" [] c = "F" -> "f"
      [] c = "T" -> "t" [] c = "Y" -> "y" [] c = "E" -> "e" [] OTHER -> c

LowerAll(s) == [i \in 1..Len(s) |-> Lower(s[i])]

AllDigits(s) == \A i \in 1..Len(s) : s[i] \in Digits

RECURSIVE DigitsVal(_)
DigitsVal(s) ==
    IF s = <<>> THEN 0
    ELSE 10 * DigitsVal(SubSeq(s, 1, Len(s) - 1)) + DigitVal(s[Len(s)])

\* position of the first character of s that is in cs, 0 when there is none
FirstOf(s, cs) ==
    IF \E i \in 1..Len(s) : s[i] \in cs
    THEN CHOOSE i \in 1..Len(s) : s[i] \in cs /\ \A j \in 1..(i - 1) : s[j] \notin cs
    ELSE 0

Invalid == [ok |-> FALSE, val |-> NaN]

Valid(v) == [ok |-> TRUE, val |-> v]

\* an unsigned decimal number with sign sg applied
ParseNumber(s, sg) ==
    LET e    == FirstOf(s, {"e"})
        mant == IF e = 0 THEN s ELSE SubSeq(s, 1, e - 1)
        ex   == IF e = 0 THEN <<>> ELSE SubSeq(s, e + 1, Len(s))
        exsg == IF ex # <<>> /\ ex[1] = "-" THEN -1 ELSE 1
        exd  == IF ex # <<>> /\ ex[1] \in {"+", "-"} THEN Tail(ex) ELSE ex
        dot  == FirstOf(mant, {"."})
        ip   == IF dot = 0 THEN mant ELSE SubSeq(mant, 1, dot - 1)
        fp   == IF dot = 0 THEN <<>> ELSE SubSeq(mant, dot + 1, Len(mant))
        p    == exsg * DigitsVal(exd) - Len(fp)
        m    == sg * DigitsVal(ip \o fp)
    IN IF \/ ~AllDigits(ip) \/ ~AllDigits(fp) \/ Len(ip) + Len(fp) = 0
          \/ (e # 0 /\ (exd = <<>> \/ ~AllDigits(exd)))
       THEN Invalid
       ELSE IF p >= 0 THEN Valid(Fin(m * Pow10(p), 0)) ELSE Valid(Fin(m, -p))

ParseF64(text) ==
    LET s    == LowerAll(text)
        sgn  == s # <<>> /\ s[1] \in {"+", "-"}
        sg   == IF s # <<>> /\ s[1] = "-" THEN -1 ELSE 1
        body == IF sgn THEN Tail(s) ELSE s
    IN IF body = <<"n", "a", "n">> THEN Valid(NaN)
       ELSE IF body \in {<<"i", "n", "f">>, <<"i", "n", "f", "i", "n", "i", "t", "y">>}
            THEN Valid(IF sg = 1 THEN INFINITY ELSE NEG_INFINITY)
       ELSE ParseNumber(body, sg)

(***************************************************************************)
(* The texts that the fields of the input rows are drawn from.             *)
(***************************************************************************)
NotANumber == <<"a", "b", "c">>

\* texts tried in column 2; "10" and "1e1" are the same number
TimeTexts ==
    { <<"5">>, <<"1", "0">>, <<"1", "e", "1">>, <<"N", "a", "N">>, NotANumber }

\* texts tried in column 3
SampleTexts == { <<"1", "0", "0">>, <<"2", "0", "0">>, <<"n", "a", "n">> }

\* the text of a zero-based column that the row sets do not vary
Filler(c) ==
    CASE c = 0 -> <<"r", "1">>
      [] c = 1 -> <<"c", "h">>
      [] c = 4 -> <<"7">>
      [] c = 5 -> <<"q">>
      [] c = 6 -> <<"3">>
      [] c = 7 -> <<"0", ".", "4", "0">>
      [] c = 8 -> <<"-", "6">>
      [] OTHER -> <<"z">>

\* texts tried in the required columns
WideTexts == { <<"1">>, <<"2", ".", "5">>, NotANumber }

\* texts tried in columns 0, 1 and 5
IgnoredTexts == { <<"q">>, <<"7">>, <<"N", "a", "N">> }

\* every text a field of an input row can hold
Texts ==
    TimeTexts \cup SampleTexts \cup WideTexts \cup IgnoredTexts
    \cup {Filler(c) : c \in 0..MaxCols}

\* ParseF64 tabulated over Texts
ParsedTexts == [t \in Texts |-> ParseF64(t)]

\* text.parse::<f64>() for the text of a field
parse(text) == ParsedTexts[text]

(***************************************************************************)
(* parse_csv: one Record per data row.                                     *)
(***************************************************************************)
\* FieldTable with mean_qscore read from column 5
FieldTableShifted ==
    << [name |-> "time",                     col |-> 2, missing |-> "Missing batch_time"],
       [name |-> "samples",                  col |-> 3, missing |-> "Missing samples"],
       [name |-> "bases",                    col |-> 4, missing |-> "Missing bases"],
       [name |-> "mean_qscore",              col |-> 5, missing |-> "Missing mean_qscore"],
       [name |-> "time_to_package_and_send", col |-> 7,
        missing |-> "Missing time_to_package_and_send"],
       [name |-> "time_in_basecaller",       col |-> 8,
        missing |-> "Missing time_in_basecaller"] >>

\* the Record initialiser: fields in evaluation order, each with the
\* zero-based column it reads and the message of its ok_or
FieldTable ==
    << [name |-> "time",                     col |-> 2, missing |-> "Missing batch_time"],
       [name |-> "samples",                  col |-> 3, missing |-> "Missing samples"],
       [name |-> "bases",                    col |-> 4, missing |-> "Missing bases"],
       [name |-> "mean_qscore",              col |-> 6, missing |-> "Missing mean_qscore"],
       [name |-> "time_to_package_and_send", col |-> 7,
        missing |-> "Missing time_to_package_and_send"],
       [name |-> "time_in_basecaller",       col |-> 8,
        missing |-> "Missing time_in_basecaller"] >>

FieldNames == {FieldTable[k].name : k \in 1..Len(FieldTable)}

MissingErrs == {FieldTable[k].missing : k \in 1..Len(FieldTable)}

ParseFloatError == "ParseFloatError"

\* FieldError that reports an absent field as a number that does not parse
FieldErrorNoMissing(record, f) ==
    IF f.col >= Len(record) \/ ~parse(record[f.col + 1]).ok THEN "ParseFloatError"
    ELSE ""

\* record.get(col).ok_or(missing)?.parse()? for one field: "" when it succeeds
FieldError(record, f) ==
    IF f.col >= Len(record) THEN f.missing
    ELSE IF ~parse(record[f.col + 1]).ok THEN ParseFloatError
    ELSE ""

\* the value of field `name` once every field of the row succeeded
FieldValue(record, name) ==
    LET f == CHOOSE g \in {FieldTable[k] : k \in 1..Len(FieldTable)} : g.name = name
    IN parse(record[f.col + 1]).val

\* the Record built from one row, or the error of the first field that fails
ParseRow(record) ==
    LET bad == {k \in 1..Len(FieldTable) : FieldError(record, FieldTable[k]) # ""}
    IN IF bad = {}
       THEN [err |-> "", rec |-> [n \in FieldNames |-> FieldValue(record, n)]]
       ELSE [err |-> FieldError(record, FieldTable[CHOOSE k \in bad : \A j \in bad : k <= j]),
             rec |-> [n \in FieldNames |-> NaN]]

(***************************************************************************)
(* data.sort_by(|a, b| a.time.partial_cmp(&b.time).unwrap()): the stable   *)
(* insertion sort the standard library runs on short slices.  A comparison *)
(* that meets a NaN panics.                                                *)
(***************************************************************************)
\* compare with its operands exchanged
compareReversed(a, b) == partial_cmp(b.time, a.time)

\* the comparator closure; "None" is the unwrap that panics
compare(a, b) == partial_cmp(a.time, b.time)

Sorted(v) == [panic |-> FALSE, v |-> v]

Panicked == [panic |-> TRUE, v |-> <<>>]

\* insert_tail that also moves left past an equal element
RECURSIVE insert_tail_unstable(_, _)
insert_tail_unstable(v, r) ==
    IF v = <<>> THEN Sorted(<<r>>)
    ELSE LET last == v[Len(v)]
             c    == compare(r, last)
         IN IF c = "None" THEN Panicked
            ELSE IF c \in {"Less", "Equal"}
                 THEN LET rest == insert_tail_unstable(SubSeq(v, 1, Len(v) - 1), r)
                      IN IF rest.panic THEN Panicked ELSE Sorted(rest.v \o <<last>>)
                 ELSE Sorted(v \o <<r>>)

\* insert r behind the sorted run v, moving left while r is less
RECURSIVE insert_tail(_, _)
insert_tail(v, r) ==
    IF v = <<>> THEN Sorted(<<r>>)
    ELSE LET last == v[Len(v)]
             c    == compare(r, last)
         IN IF c = "None" THEN Panicked
            ELSE IF c = "Less"
                 THEN LET rest == insert_tail(SubSeq(v, 1, Len(v) - 1), r)
                      IN IF rest.panic THEN Panicked ELSE Sorted(rest.v \o <<last>>)
                 ELSE Sorted(v \o <<r>>)

RECURSIVE sort_prefix(_, _)
sort_prefix(v, n) ==
    IF n = 0 THEN Sorted(<<>>)
    ELSE LET p == sort_prefix(v, n - 1)
         IN IF p.panic THEN Panicked ELSE insert_tail(p.v, v[n])

sort_by(v) == sort_prefix(v, Len(v))

(***************************************************************************)
(* plot_multi_series: the axis ranges of one panel.                        *)
(***************************************************************************)
\* the accessor list, top panel first
Fields ==
    << "samples", "bases", "mean_qscore", "time_to_package_and_send", "time_in_basecaller" >>

accessor(r, i) == r[Fields[i]]

\* data.iter().map(accessor).fold(f64::INFINITY, f64::min)
RECURSIVE min_val(_, _, _)
min_val(d, i, n) ==
    IF n = 0 THEN INFINITY ELSE f64_min(min_val(d, i, n - 1), accessor(d[n], i))

\* data.iter().map(accessor).fold(f64::NEG_INFINITY, f64::max)
RECURSIVE max_val(_, _, _)
max_val(d, i, n) ==
    IF n = 0 THEN NEG_INFINITY ELSE f64_max(max_val(d, i, n - 1), accessor(d[n], i))

\* data.first().unwrap().time
min_time(d) == d[1].time

\* data.last().unwrap().time
max_time(d) == d[Len(d)].time

\* the ranges handed to build_cartesian_2d for panel i
PanelAxes(d, i) ==
    [x |-> <<min_time(d), max_time(d)>>,
     y |-> <<min_val(d, i, Len(d)), max_val(d, i, Len(d))>>]

(***************************************************************************)
(* The input rows the reader may deliver.                                  *)
(***************************************************************************)
\* a row of n fields with time text t and samples text s
Row(n, t, s) ==
    [i \in 1..n |-> IF i = 3 THEN t ELSE IF i = 4 THEN s ELSE Filler(i - 1)]

\* row r with zero-based column c replaced by text x (when r has that column)
WithCol(r, c, x) == [i \in 1..Len(r) |-> IF i = c + 1 THEN x ELSE r[i]]

RequiredCols == {FieldTable[k].col : k \in 1..Len(FieldTable)}

\* the rows of n fields: every samples text with every time that is a number,
\* a NaN time, and a valid row with one required column made invalid
Rows(n) ==
    {Row(n, t, s) : t \in TimeTexts \ {<<"N", "a", "N">>, NotANumber}, s \in SampleTexts}
    \cup {Row(n, <<"N", "a", "N">>, <<"1", "0", "0">>)}
    \cup {WithCol(Row(n, <<"5">>, <<"1", "0", "0">>), c, NotANumber) : c \in RequiredCols}

\* rows whose field count differs from the n of the header
OddRows(n) ==
    {Row(m, t, <<"1", "0", "0">>) : m \in (1..MaxCols) \ {n}, t \in {<<"5">>, NotANumber}}

(***************************************************************************)
(* Exit codes of the process.                                              *)
(***************************************************************************)
\* the process is still running: no exit code yet
Running == <<>>

\* the process has ended with code c
Exited(c) == <<c>>

\* normal return of main with Ok
EXIT_SUCCESS == 0

\* std::process::exit(1), and main returning Err
EXIT_FAILURE == 1

\* the exit code of a Rust process whose main thread panicked
EXIT_PANIC == 101

\* the number of panels
Panels == 5

(***************************************************************************)
(* The program.                                                            *)
(***************************************************************************)
Init ==
    /\ pc = "main"
    /\ argc \in 1..MaxArgs
    /\ ncols = 0
    /\ rows = <<>>
    /\ data = <<>>
    /\ loadResult = "none"
    /\ loadErr = ""
    /\ axes = <<>>
    /\ renderResult = "none"
    /\ written = FALSE
    /\ stdout = ""
    /\ stderr = ""
    /\ exitCode = Running

\* CheckArgs that prints the usage message and goes on
CheckArgsNoExit ==
    /\ pc = "main"
    /\ stderr' = IF argc # 3 THEN "usage" ELSE stderr
    /\ pc' = "open"
    /\ UNCHANGED <<argc, ncols, rows, data, loadResult, loadErr, axes, renderResult,
                   written, stdout, exitCode>>

\* main, through its argument check
CheckArgs ==
    /\ pc = "main"
    /\ IF argc # 3
       THEN /\ stderr' = "usage"
            /\ exitCode' = Exited(EXIT_FAILURE)
            /\ pc' = "exit"
       ELSE /\ pc' = "open"
            /\ UNCHANGED <<stderr, exitCode>>
    /\ UNCHANGED <<argc, ncols, rows, data, loadResult, loadErr, axes, renderResult,
                   written, stdout>>

\* parse_csv fails with error e; main's `?` returns it and the process exits 1
LoadFails(e) ==
    /\ loadResult' = "err"
    /\ loadErr' = e
    /\ data' = <<>>
    /\ stderr' = "error"
    /\ exitCode' = Exited(EXIT_FAILURE)
    /\ pc' = "exit"

\* csv::Reader::from_path succeeds; the header row has n fields (0: empty file)
OpenCsv ==
    /\ pc = "open"
    /\ \E n \in 0..MaxCols : ncols' = n
    /\ pc' = "read"
    /\ UNCHANGED <<argc, rows, data, loadResult, loadErr, axes, renderResult, written,
                   stdout, stderr, exitCode>>

\* csv::Reader::from_path fails
OpenFails ==
    /\ pc = "open"
    /\ LoadFails("OpenError")
    /\ UNCHANGED <<argc, ncols, rows, axes, renderResult, written, stdout>>

\* ReadRow that skips a row it cannot turn into a Record
ReadRowSkip(record) ==
    /\ rows' = Append(rows, record)
    /\ IF Len(record) # ncols THEN LoadFails("CsvError")
       ELSE /\ data' = IF ParseRow(record).err # "" THEN data
                       ELSE Append(data, ParseRow(record).rec)
            /\ UNCHANGED <<pc, loadResult, loadErr, stderr, exitCode>>

\* what one pass of the loop does with the record the reader yields: a record
\* whose field count differs from the header's is an error of the reader
ReadRow(record) ==
    LET r == ParseRow(record)
    IN /\ rows' = Append(rows, record)
       /\ IF Len(record) # ncols THEN LoadFails("CsvError")
          ELSE IF r.err # "" THEN LoadFails(r.err)
          ELSE /\ data' = Append(data, r.rec)
               /\ UNCHANGED <<pc, loadResult, loadErr, stderr, exitCode>>

\* one pass of the loop over rdr.records()
ReadRecord ==
    /\ pc = "read"
    /\ ncols > 0
    /\ Len(rows) < MaxRows
    /\ \E record \in Rows(ncols) \cup OddRows(ncols) : ReadRow(record)
    /\ UNCHANGED <<argc, ncols, axes, renderResult, written, stdout>>

\* the reader yields an error of its own (I/O, invalid UTF-8)
ReadFails ==
    /\ pc = "read"
    /\ LoadFails("CsvError")
    /\ UNCHANGED <<argc, ncols, rows, axes, renderResult, written, stdout>>

\* the reader is exhausted: sort and return
EndOfFile ==
    /\ pc = "read"
    /\ LET s == sort_by(data)
       IN IF s.panic
          THEN /\ loadResult' = "panic"
               /\ data' = <<>>
               /\ stderr' = "panic"
               /\ exitCode' = Exited(EXIT_PANIC)
               /\ pc' = "exit"
          ELSE /\ loadResult' = "ok"
               /\ data' = s.v
               /\ pc' = "render"
               /\ UNCHANGED <<stderr, exitCode>>
    /\ UNCHANGED <<argc, ncols, rows, loadErr, axes, renderResult, written, stdout>>

\* plot_multi_series up to its loop: backend, background, split, field list
BeginRender ==
    /\ pc = "render"
    /\ renderResult' = "started"
    /\ pc' = "panel"
    /\ UNCHANGED <<argc, ncols, rows, data, loadResult, loadErr, axes, written, stdout,
                   stderr, exitCode>>

\* the loop over the panels and Ok(()): first().unwrap() panics on no data in
\* the first pass; leaving the function, by return or by unwinding, drops the
\* backend, which saves the bitmap
RenderPanels ==
    /\ pc = "panel"
    /\ written' = TRUE
    /\ IF data = <<>>
       THEN /\ renderResult' = "panic"
            /\ stderr' = "panic"
            /\ exitCode' = Exited(EXIT_PANIC)
            /\ pc' = "exit"
            /\ UNCHANGED axes
       ELSE /\ axes' = [i \in 1..Panels |-> PanelAxes(data, i)]
            /\ renderResult' = "ok"
            /\ pc' = "confirm"
            /\ UNCHANGED <<stderr, exitCode>>
    /\ UNCHANGED <<argc, ncols, rows, data, loadResult, loadErr, stdout>>

\* a drawing call of the backend fails and `?` returns its error
RenderFails ==
    /\ pc = "panel"
    /\ renderResult' = "err"
    /\ written' = TRUE
    /\ stderr' = "error"
    /\ exitCode' = Exited(EXIT_FAILURE)
    /\ pc' = "exit"
    /\ UNCHANGED <<argc, ncols, rows, data, loadResult, loadErr, axes, stdout>>

\* main after the renderer: the confirmation and Ok(())
Confirm ==
    /\ pc = "confirm"
    /\ stdout' = "Plot saved"
    /\ exitCode' = Exited(EXIT_SUCCESS)
    /\ pc' = "exit"
    /\ UNCHANGED <<argc, ncols, rows, data, loadResult, loadErr, axes, renderResult,
                   written, stderr>>

Next ==
    \/ CheckArgs
    \/ OpenCsv
    \/ OpenFails
    \/ ReadRecord
    \/ ReadFails
    \/ EndOfFile
    \/ BeginRender
    \/ RenderPanels
    \/ RenderFails
    \/ Confirm

Spec == Init /\ [][Next]_vars

(***************************************************************************)
(* The Record initialiser alone: one pass of the loop on a first row drawn *)
(* from rows whose every column varies.                                    *)
(***************************************************************************)
IgnoredCols == {0, 1, 5}

\* the row of n fields with texts f in the required and g in the ignored columns
WideRow(n, f, g) ==
    [i \in 1..n |-> IF i - 1 \in RequiredCols THEN f[i - 1]
                    ELSE IF i - 1 \in IgnoredCols THEN g[i - 1]
                    ELSE Filler(i - 1)]

WideRows(n) ==
    {WideRow(n, f, g) : f \in [RequiredCols -> WideTexts], g \in [IgnoredCols -> IgnoredTexts]}

\* the loader has opened a file whose header has 8 fields or more
InitRow ==
    /\ pc = "read"
    /\ argc = 3
    /\ ncols \in (MaxCols - 2)..MaxCols
    /\ rows = <<>>
    /\ data = <<>>
    /\ loadResult = "none"
    /\ loadErr = ""
    /\ axes = <<>>
    /\ renderResult = "none"
    /\ written = FALSE
    /\ stdout = ""
    /\ stderr = ""
    /\ exitCode = Running

\* the first pass of the loop over rdr.records()
ReadFirstRecord ==
    /\ pc = "read"
    /\ rows = <<>>
    /\ \E record \in WideRows(ncols) : ReadRow(record)
    /\ UNCHANGED <<argc, ncols, axes, renderResult, written, stdout>>

NextRow == ReadFirstRecord

SpecRow == InitRow /\ [][NextRow]_vars

(***************************************************************************)
(* Properties.                                                             *)
(***************************************************************************)
\* the rows the reader handed to the loop body: same field count as the header
Delivered(i) == Len(rows[i]) = ncols

\* row r holds, in a required column it has, a text that is no number
HasBadLiteral(r) == \E c \in {2, 3, 4, 6, 7, 8} : c < Len(r) /\ ~parse(r[c + 1]).ok

\* the number of fields a row needs: columns 0 to 8
RequiredFields == 9

\* a <= b as f64 compares them: false when either is NaN
Le(a, b) == partial_cmp(a, b) \in {"Less", "Equal"}

\* C1: a dataset that parse_csv returns is in ascending order of time: every
\* adjacent pair of Records satisfies time[i] <= time[i+1].
C1_SortInvariant ==
    loadResult = "ok" =>
        \A i \in 1..(Len(data) - 1) : Le(data[i].time, data[i + 1].time)

\* a dataset was returned whose rows were not in order of time in the file
C1_Witness ==
    /\ loadResult = "ok"
    /\ Len(data) >= 2
    /\ \E i, j \in 1..Len(rows) :
          i < j /\ partial_cmp(ParseRow(rows[j]).rec.time, ParseRow(rows[i]).rec.time) = "Less"

\* C2 (as claimed): on the empty dataset of an input with a header and no data
\* row, the renderer returns an error value before any axis bound is computed,
\* and the program does not panic.
C2_EmptyDatasetRejected ==
    (ncols > 0 /\ loadResult = "ok" /\ data = <<>> /\ renderResult \notin {"none", "started"}) =>
        /\ renderResult = "err"
        /\ axes = <<>>
        /\ exitCode # Exited(EXIT_PANIC)

\* C3 (as claimed): an input with a data row whose time parses to NaN never
\* loads successfully, whatever the number of rows.
C3_NaNTimeRejected ==
    (\E i \in 1..Len(rows) :
        /\ Delivered(i)
        /\ ParseRow(rows[i]).err = ""
        /\ IsNaN(ParseRow(rows[i]).rec.time)) => loadResult # "ok"

FirstMissing(r) ==
    CASE Len(r) <= 2 -> "Missing batch_time"
      [] Len(r) = 3 -> "Missing samples"
      [] Len(r) = 4 -> "Missing bases"
      [] Len(r) \in {5, 6} -> "Missing mean_qscore"
      [] Len(r) = 7 -> "Missing time_to_package_and_send"
      [] OTHER -> "Missing time_in_basecaller"

C6_ExitCodes ==
    pc = "exit" =>
        exitCode = IF argc = 3 /\ loadResult = "ok" /\ renderResult = "ok"
                   THEN Exited(EXIT_SUCCESS) ELSE Exited(EXIT_FAILURE)

\* C7: argument check, load, render, confirmation happen in this order: the
\* loader runs only after the argument count was accepted, the renderer starts
\* and the output file is written only after the loader returned a dataset, and
\* the confirmation is printed only after the renderer returned success.
C7_Order ==
    /\ (pc # "main" /\ argc # 3) =>
          /\ pc = "exit"
          /\ loadResult = "none" /\ renderResult = "none" /\ ~written /\ stdout = ""
    /\ loadResult \in {"err", "panic"} => renderResult = "none" /\ ~written /\ stdout = ""
    /\ renderResult # "none" => loadResult = "ok"
    /\ written => renderResult \in {"ok", "err", "panic"}
    /\ stdout # "" => renderResult = "ok" /\ written

\* a run that went through all four steps
C7_Witness ==
    /\ pc = "exit"
    /\ stdout = "Plot saved"
    /\ exitCode = Exited(EXIT_SUCCESS)
    /\ Len(rows) >= 2

\* v is a least element of the f64 values S: it is one of them and none is less
IsMinOf(v, S) == v \in S /\ \A w \in S : partial_cmp(w, v) # "Less"

\* v is a greatest element of the f64 values S
IsMaxOf(v, S) == v \in S /\ \A w \in S : partial_cmp(w, v) # "Greater"

\* C8 (as claimed): for a non-empty dataset every panel's x range is
\* [min(time), max(time)] and its y range is [min, max] of the panel's field.
C8_AxisBounds ==
    renderResult = "ok" =>
        \A i \in 1..Panels :
            LET ts == {data[k].time : k \in 1..Len(data)}
                vs == {data[k][Fields[i]] : k \in 1..Len(data)}
            IN /\ IsMinOf(axes[i].x[1], ts)
               /\ IsMaxOf(axes[i].x[2], ts)
               /\ IsMinOf(axes[i].y[1], vs)
               /\ IsMaxOf(axes[i].y[2], vs)

\* row r is well-formed: 9 fields or more, a number in each required column
WellFormed(r) ==
    Len(r) >= RequiredFields /\ \A c \in {2, 3, 4, 6, 7, 8} : ParseF64(r[c + 1]).ok

\* row r with the texts a, b, c in columns 0, 1 and 5
WithIgnored(r, a, b, c) == WithCol(WithCol(WithCol(r, 0, a), 1, b), 5, c)

\* C9: the Record built from a well-formed row has time = column 2, samples =
\* column 3, bases = column 4, mean_qscore = column 6, time_to_package_and_send
\* = column 7, time_in_basecaller = column 8; and whatever columns 0, 1 and 5
\* hold, the row is accepted or refused, and the Record built, just as for the
\* row that has the text "abc" in these three columns.
C9_FieldMapping ==
    Len(rows) = 1 =>
        LET r == rows[1]
        IN /\ WellFormed(r) =>
                /\ loadResult = "none"
                /\ data = << [time                     |-> ParseF64(r[3]).val,
                              samples                  |-> ParseF64(r[4]).val,
                              bases                    |-> ParseF64(r[5]).val,
                              mean_qscore              |-> ParseF64(r[7]).val,
                              time_to_package_and_send |-> ParseF64(r[8]).val,
                              time_in_basecaller       |-> ParseF64(r[9]).val] >>
           /\ LET o == ParseRow(WithIgnored(r, NotANumber, NotANumber, NotANumber))
              IN /\ loadErr = o.err
                 /\ data = IF o.err = "" THEN <<o.rec>> ELSE <<>>

\* a Record was built from a row whose column 6 differs from its column 5
C9_Witness ==
    /\ Len(rows) = 1
    /\ Len(data) = 1
    /\ rows[1][6] = <<"7">>
    /\ rows[1][7] = <<"2", ".", "5">>
    /\ data[1].mean_qscore # data[1].time

\* the one-to-one maps of 1..n onto itself
Perms(n) == {p \in [1..n -> 1..n] : \A i, j \in 1..n : p[i] = p[j] => i = j}

\* C10: the returned sequence is the input rows' Records rearranged, each Record
\* whole, and Records with equal time keep the order of their rows in the file.
C10_StableSort ==
    loadResult = "ok" =>
        LET recs == [k \in 1..Len(rows) |-> ParseRow(rows[k]).rec]
        IN \E p \in Perms(Len(rows)) :
              /\ Len(data) = Len(rows)
              /\ \A k \in 1..Len(rows) : data[k] = recs[p[k]]
              /\ \A k, l \in 1..Len(rows) :
                    (k < l /\ data[k].time = data[l].time) => p[k] < p[l]

\* rows with times 10, 5, 10 (written 1e1) loaded as 5, 10, 10, the two 10s
\* told apart by their samples and kept in file order
C10_Witness ==
    /\ loadResult = "ok"
    /\ Len(data) = 3
    /\ ParseRow(rows[2]).rec.time = Fin(5, 0)
    /\ data[1] = ParseRow(rows[2]).rec
    /\ data[2] = ParseRow(rows[1]).rec
    /\ data[3] = ParseRow(rows[3]).rec
    /\ data[2].time = data[3].time
    /\ data[2].samples # data[3].samples
    /\ rows[1][3] # rows[3][3]

====
